---- MODULE Spec2Model ----
(***************************************************************************)
(* State-machine model of the scene graph and its transforms               *)
(* (src/src/scene.rs), the scene's light manager (src/src/lighting.rs),    *)
(* the particle and the particle emitter (src/src/particle.rs), the        *)
(* effect renderer (src/src/particle_effects.rs) and the flocking, vortex  *)
(* and path-follow steering behaviours (src/src/particle_behavior.rs) of   *)
(* space_station_3d.                                                       *)
(*                                                                         *)
(* Conventions                                                             *)
(*  - Object ids are the Rust usize indices into Scene::objects (0-based); *)
(*    TLA+ sequences are 1-based, so object id i is objects[i + 1].        *)
(*  - Option<usize>::None is written None (-1).                            *)
(*  - std::time::Duration values are whole numbers of ticks; OneSecond     *)
(*    ticks make one second.  dt >= 0 is given in ticks as well, so        *)
(*    Duration::from_secs_f32(dt) is dt itself.                            *)
(***************************************************************************)
EXTENDS Integers, Sequences, FiniteSets, TLC

VARIABLES
    \* ---- Scene (scene.rs:75-80) ----
    objects,        \* Vec<SceneObject>: [name, transform, children, parent]
    object_map,     \* HashMap<String, usize>
    root_objects,   \* Vec<usize>
    scene_call,     \* the last Scene call and what it returned
    removed,        \* history: the ids remove_object was asked to remove, each
                    \* with the ids below it at the time
    world_transforms,   \* history: the <<id, world_transform>> pairs computed
                        \* by update_transforms when it was the last call
    \* ---- LightManager of the scene (lighting.rs:64-66, scene.rs:78) ----
    lights,             \* LightingUBO::lights: [Light; 4]
    light_call,         \* the last LightManager call and what it returned
    origin_stores,      \* history: the calls that have stored a light
                        \* positioned at the origin into a slot
    \* ---- ParticleEmitter (particle.rs:215-230) ----
    emitter_position,   \* ParticleEmitter::position (Vec3), abstracted: "built"
    spread_angle,       \* f32, abstracted: "built"
    initial_velocity,   \* f32, abstracted: "built"
    particle_size,      \* f32, abstracted: "built"
    direction,          \* Vec3, abstracted: "built" | "perturbed"
    emission_rate,      \* f32, abstracted: "built" | "modulated"
    particle_type,      \* ParticleType of the emitter
    particles,          \* Vec<Particle>
    emission_pattern,   \* EmissionPattern
    age,                \* Duration
    max_particles,      \* usize
    particle_lifetime,  \* Duration
    emit_timer,         \* Duration
    emission_interval,  \* Duration
    spawn_count,        \* history: particles constructed by emit() so far
    emitter_call,       \* the last ParticleEmitter call
    \* ---- PathFollowBehavior (particle_behavior.rs:174-180) and one call ----
    path,               \* Vec<Vec3>
    loop_path,          \* bool
    arrival_threshold,  \* f32
    pf_position,        \* the position argument of calculate_force
    pf_velocity,        \* the velocity argument of calculate_force
    pf_force,           \* what calculate_force returned, NoForce before the call
    \* ---- FlockingBehavior (particle_behavior.rs:38-45) and one call ----
    perception_radius,  \* f32
    fl_position,        \* the position argument of calculate_forces
    fl_velocity,        \* the velocity argument
    neighbors,          \* the neighbors argument: a list of <<pos, vel>>
    fl_force,           \* what calculate_forces returned, NoSteering before the call
    \* ---- VortexBehavior (particle_behavior.rs:144-151) and one call ----
    center,             \* Vec3
    radius,             \* f32
    vx_position,        \* the position argument of calculate_force
    vx_force,           \* what calculate_force returned, NoSwirl before the call
    \* ---- one Particle on its own (particle.rs:88-100) ----
    particle,           \* Particle: [position, lifetime, age, particle_type, effects]
    particle_call,      \* the last call on the particle, and the number of
                        \* effects the particle had when it was made
    \* ---- EffectRenderer (particle_effects.rs:52-57) and one call ----
    renderer_time,      \* EffectRenderer::time (Duration)
    rendered_effect,    \* the effect argument: [effect_type, start_time, duration]
    render_data         \* what render_effect returned, NoRender before the call

light_vars == <<lights, light_call, origin_stores>>

\* The scene: the object graph and its light manager.
scene_vars == <<objects, object_map, root_objects, scene_call, removed,
               world_transforms, light_vars>>

\* The emitter fields no method assigns after build().
emitter_fixed == <<emitter_position, spread_angle, initial_velocity, particle_size>>

emitter_vars == <<emitter_fixed, direction, emission_rate, particle_type, particles,
                  emission_pattern, age, max_particles, particle_lifetime,
                  emit_timer, emission_interval, spawn_count, emitter_call>>

path_vars == <<path, loop_path, arrival_threshold, pf_position, pf_velocity,
               pf_force>>

flock_vars == <<perception_radius, fl_position, fl_velocity, neighbors, fl_force>>

vortex_vars == <<center, radius, vx_position, vx_force>>

\* The three steering behaviours together.
behavior_vars == <<path_vars, flock_vars, vortex_vars>>

lone_particle_vars == <<particle, particle_call>>

renderer_vars == <<renderer_time, rendered_effect, render_data>>

\* The particle on its own and the effect renderer.
particle_vars == <<lone_particle_vars, renderer_vars>>

vars == <<scene_vars, emitter_vars, behavior_vars, particle_vars>>

\* ------------------------------------------------------------------------
\* Bounds of the model
\* ------------------------------------------------------------------------
\* Scene::objects is explored up to this many stored SceneObjects.
MaxObjects == 3

\* Ticks in one second (the resolution of Duration in the model).
OneSecond == 2

\* update(dt) is called with dt in 0..MaxDt ticks.
MaxDt == 2

\* Emitters are built with particle_lifetime in 0..MaxLifetime ticks.
MaxLifetime == 3

\* Ring patterns are explored with count in 1..MaxRingCount.
MaxRingCount == 2

\* update is explored while the emitter's age stays within MaxAge ticks.
MaxAge == 4

\* emit() is explored until MaxSpawn particles have been constructed.
MaxSpawn == 3

\* Waypoints and positions have x in 0..MaxCoord (and y in 0..1, z = 0).
MaxCoord == 2

\* Paths hold up to MaxPathLen waypoints.
MaxPathLen == 3

\* calculate_forces is given up to MaxNeighbors neighbors.
MaxNeighbors == 2

\* perception_radius and the vortex radius go up to MaxRadius.
MaxRadius == 2

\* The renderer's time and an effect's start_time go up to MaxTime ticks.
MaxTime == 3

\* A particle carries up to MaxEffects effects.
MaxEffects == 2

\* Effects have a duration in 0..MaxEffectDuration ticks.
MaxEffectDuration == 2

\* The names callers pass to add_object / remove_object.
Names == {"A", "B", "C"}

\* Option::None for parent indices and parent names.
None == -1

NoName == "none"

\* ------------------------------------------------------------------------
\* Vec helpers
\* ------------------------------------------------------------------------
\* iter().position(|&id| id == x): the first index holding x, 0 when absent.
Position(s, x) ==
    IF \E i \in 1..Len(s) : s[i] = x
    THEN CHOOSE i \in 1..Len(s) : s[i] = x /\ \A j \in 1..(i - 1) : s[j] # x
    ELSE 0

\* Vec::remove(pos)
RemoveAt(s, pos) == SubSeq(s, 1, pos - 1) \o SubSeq(s, pos + 1, Len(s))

\* if let Some(pos) = v.iter().position(..) { v.remove(pos); }
RemoveFirst(s, x) == IF Position(s, x) = 0 THEN s ELSE RemoveAt(s, Position(s, x))

\* HashMap::insert
MapInsert(m, k, v) == [n \in DOMAIN m \cup {k} |-> IF n = k THEN v ELSE m[n]]

\* HashMap::remove
MapRemove(m, k) == [n \in DOMAIN m \ {k} |-> m[n]]

\* ------------------------------------------------------------------------
\* glam Vec3, Quat and Mat4 as scene.rs uses them
\* ------------------------------------------------------------------------
\* Vec3 is <<x, y, z>> with whole coordinates.
Vec3_ZERO == <<0, 0, 0>>

Vec3_ONE == <<1, 1, 1>>

Vec3_add(a, b) == <<a[1] + b[1], a[2] + b[2], a[3] + b[3]>>

\* The unit quaternions explored, by name: no rotation, and a quarter turn
\* about the z axis (x to y, y to -x).
Rotations == {"identity", "quarter_z"}

\* The 3x3 rotation matrix of a quaternion, as rows.
Mat3_from_quat(q) ==
    IF q = "quarter_z"
    THEN <<<<0, -1, 0>>, <<1, 0, 0>>, <<0, 0, 1>>>>
    ELSE <<<<1, 0, 0>>, <<0, 1, 0>>, <<0, 0, 1>>>>

Mat3_from_diagonal(d) == <<<<d[1], 0, 0>>, <<0, d[2], 0>>, <<0, 0, d[3]>>>>

Mat3_mul_vec3(a, v) ==
    [i \in 1..3 |-> a[i][1] * v[1] + a[i][2] * v[2] + a[i][3] * v[3]]

Mat3_mul(a, b) ==
    [i \in 1..3 |-> [j \in 1..3 |->
        a[i][1] * b[1][j] + a[i][2] * b[2][j] + a[i][3] * b[3][j]]]

\* An affine Mat4 is its upper-left 3x3 block and its translation column
\* (the bottom row is 0 0 0 1 for every matrix built here).
Mat4_IDENTITY == [linear |-> Mat3_from_diagonal(Vec3_ONE), translation |-> Vec3_ZERO]

\* Mat4 * Mat4: the right factor is applied to a point first.
Mat4_mul(a, b) ==
    [linear |-> Mat3_mul(a.linear, b.linear),
     translation |-> Vec3_add(Mat3_mul_vec3(a.linear, b.translation), a.translation)]

\* Mat4::from_scale_rotation_translation: the columns are the rotation's
\* axes times the scale components, the last column is the translation.
Mat4_from_scale_rotation_translation(scale, rotation, translation) ==
    [linear |-> Mat3_mul(Mat3_from_quat(rotation), Mat3_from_diagonal(scale)),
     translation |-> translation]

\* Mat4::transform_point3
Mat4_transform_point3(a, p) == Vec3_add(Mat3_mul_vec3(a.linear, p), a.translation)

\* ------------------------------------------------------------------------
\* Transform (scene.rs:8-41)
\* ------------------------------------------------------------------------
\* Transform::new
Transform_new(position, rotation, scale) ==
    [position |-> position, rotation |-> rotation, scale |-> scale]

\* Transform::default
Transform_default == Transform_new(Vec3_ZERO, "identity", Vec3_ONE)

\* A matrix that translates first and rotates and scales after: the
\* position comes out rotated and scaled as well.
Transform_matrix_translate_first(t) ==
    LET m == Mat4_from_scale_rotation_translation(t.scale, t.rotation, Vec3_ZERO)
    IN  [m EXCEPT !.translation = Mat3_mul_vec3(m.linear, t.position)]

\* Transform::matrix
Transform_matrix(t) ==
    Mat4_from_scale_rotation_translation(t.scale, t.rotation, t.position)

\* The transforms callers pass: translations by one unit along each axis, a
\* translation with a uniform scale of two, and a quarter turn with a
\* non-uniform scale.
Transforms ==
    {Transform_new(<<1, 0, 0>>, "identity", Vec3_ONE),
     Transform_new(<<0, 1, 0>>, "identity", Vec3_ONE),
     Transform_new(<<0, 0, 1>>, "identity", Vec3_ONE),
     Transform_new(<<1, 0, 0>>, "identity", <<2, 2, 2>>),
     Transform_new(<<0, 1, 0>>, "quarter_z", <<1, 2, 1>>)}

\* ------------------------------------------------------------------------
\* Views of the hierarchy used by the properties
\* ------------------------------------------------------------------------
\* The elements of a Vec.
Elems(s) == {s[i] : i \in 1..Len(s)}

\* The ids the registry maps some name to.
Registered(m) == {m[n] : n \in DOMAIN m}

\* The ids below id through children lists (id itself excluded).
RECURSIVE Descendants(_, _)
Descendants(objs, id) ==
    LET cs == Elems(objs[id + 1].children)
    IN  cs \cup UNION {Descendants(objs, c) : c \in cs}

\* The ids below the roots through children lists, the roots included.
Reachable(objs, roots) ==
    Elems(roots) \cup UNION {Descendants(objs, r) : r \in Elems(roots)}

\* A Vec without the elements of gone, order kept.
Without(s, gone) == SelectSeq(s, LAMBDA x : x \notin gone)

\* ------------------------------------------------------------------------
\* Scene
\* ------------------------------------------------------------------------
\* SceneObject::new: no children, no parent.
SceneObject_new(name, transform) ==
    [name |-> name, transform |-> transform, children |-> <<>>, parent |-> None]

\* The Scene as one value, for the operations below.
SceneState == [objects |-> objects, object_map |-> object_map,
               root_objects |-> root_objects]

\* Scene::new
Scene_new == [objects |-> <<>>, object_map |-> <<>>, root_objects |-> <<>>]

\* add_object with the parent check dropped: an unknown parent name makes the
\* object a root instead of failing the call.
add_object_orphan(s, name, transform, parent) ==
    LET object_id == Len(s.objects)
        known     == parent # NoName /\ parent \in DOMAIN s.object_map
        parent_id == IF known THEN s.object_map[parent] ELSE None
        object    == [SceneObject_new(name, transform) EXCEPT !.parent = parent_id]
        s1 == IF known
              THEN [s EXCEPT !.objects[parent_id + 1].children = Append(@, object_id)]
              ELSE [s EXCEPT !.root_objects = Append(@, object_id)]
    IN  [ok |-> TRUE, id |-> object_id,
         s |-> [s1 EXCEPT !.objects = Append(@, object),
                          !.object_map = MapInsert(@, name, object_id)]]

\* add_object that numbers the new object by the count of registered names
\* instead of the length of the storage: after a removal an index comes
\* back.
add_object_count_registered(s, name, transform, parent) ==
    LET object_id == Cardinality(DOMAIN s.object_map)
        object    == SceneObject_new(name, transform)
    IN  IF parent # NoName
        THEN IF parent \in DOMAIN s.object_map
             THEN LET parent_id == s.object_map[parent]
                      linked == [object EXCEPT !.parent = parent_id]
                      s1 == [s EXCEPT !.objects[parent_id + 1].children =
                                          Append(@, object_id)]
                  IN  [ok |-> TRUE, id |-> object_id,
                       s |-> [s1 EXCEPT !.objects = Append(@, linked),
                                        !.object_map = MapInsert(@, name, object_id)]]
             ELSE [ok |-> FALSE, id |-> None, s |-> s]
        ELSE LET s1 == [s EXCEPT !.root_objects = Append(@, object_id)]
             IN  [ok |-> TRUE, id |-> object_id,
                  s |-> [s1 EXCEPT !.objects = Append(@, object),
                                   !.object_map = MapInsert(@, name, object_id)]]

\* add_object with the link the wrong way round: the new object lists the
\* parent as its child and the parent takes the new object as its parent.
add_object_reversed_link(s, name, transform, parent) ==
    LET object_id == Len(s.objects)
        object    == SceneObject_new(name, transform)
    IN  IF parent # NoName
        THEN IF parent \in DOMAIN s.object_map
             THEN LET parent_id == s.object_map[parent]
                      linked == [object EXCEPT !.children = <<parent_id>>]
                      s1 == [s EXCEPT !.objects[parent_id + 1].parent = object_id]
                  IN  [ok |-> TRUE, id |-> object_id,
                       s |-> [s1 EXCEPT !.objects = Append(@, linked),
                                        !.object_map = MapInsert(@, name, object_id)]]
             ELSE [ok |-> FALSE, id |-> None, s |-> s]
        ELSE LET s1 == [s EXCEPT !.root_objects = Append(@, object_id)]
             IN  [ok |-> TRUE, id |-> object_id,
                  s |-> [s1 EXCEPT !.objects = Append(@, object),
                                   !.object_map = MapInsert(@, name, object_id)]]

\* Scene::add_object(name, transform, .., parent): [ok, id, s].  The object id is taken
\* first; a named parent is looked up in the registry and the call bails out
\* before anything is stored when it is absent.
add_object(s, name, transform, parent) ==
    LET object_id == Len(s.objects)
        object    == SceneObject_new(name, transform)
    IN  IF parent # NoName
        THEN IF parent \in DOMAIN s.object_map
             THEN LET parent_id == s.object_map[parent]
                      linked == [object EXCEPT !.parent = parent_id]
                      s1 == [s EXCEPT !.objects[parent_id + 1].children =
                                          Append(@, object_id)]
                  IN  [ok |-> TRUE, id |-> object_id,
                       s |-> [s1 EXCEPT !.objects = Append(@, linked),
                                        !.object_map = MapInsert(@, name, object_id)]]
             ELSE [ok |-> FALSE, id |-> None, s |-> s]
        ELSE LET s1 == [s EXCEPT !.root_objects = Append(@, object_id)]
             IN  [ok |-> TRUE, id |-> object_id,
                  s |-> [s1 EXCEPT !.objects = Append(@, object),
                                   !.object_map = MapInsert(@, name, object_id)]]

RECURSIVE remove_object(_, _)
RECURSIVE remove_children(_, _)

\* remove_children without the recursion: the children keep their registry
\* entries.
remove_children_shallow(s, children) == [ok |-> TRUE, s |-> s]

\* The loop over the cloned children list (scene.rs:135-142): each child's
\* name is recovered by reverse lookup in the registry; a child with no
\* registry entry is skipped; an error of the recursive call is propagated
\* by `?` and ends the loop.
remove_children(s, children) ==
    IF children = <<>>
    THEN [ok |-> TRUE, s |-> s]
    ELSE LET child_id == Head(children)
             found    == {n \in DOMAIN s.object_map : s.object_map[n] = child_id}
         IN  IF found = {}
             THEN remove_children(s, Tail(children))
             ELSE LET r == remove_object(s, CHOOSE n \in found : TRUE)
                  IN  IF r.ok THEN remove_children(r.s, Tail(children))
                      ELSE r

\* remove_object that ignores an unknown name instead of failing.
remove_object_silent(s, name) ==
    IF name \in DOMAIN s.object_map
    THEN LET object_id == s.object_map[name]
             parent    == s.objects[object_id + 1].parent
             s1 == IF parent # None
                   THEN [s EXCEPT !.objects[parent + 1].children =
                                      RemoveFirst(@, object_id)]
                   ELSE s
             s2 == [s1 EXCEPT !.root_objects = RemoveFirst(@, object_id)]
             r  == remove_children(s2, s2.objects[object_id + 1].children)
         IN  [ok |-> TRUE, s |-> [r.s EXCEPT !.object_map = MapRemove(@, name)]]
    ELSE [ok |-> TRUE, s |-> s]

\* Scene::remove_object(name): [ok, s].
remove_object(s, name) ==
    IF name \in DOMAIN s.object_map
    THEN LET object_id == s.object_map[name]
             parent    == s.objects[object_id + 1].parent
             s1 == IF parent # None
                   THEN [s EXCEPT !.objects[parent + 1].children =
                                      RemoveFirst(@, object_id)]
                   ELSE s
             s2 == [s1 EXCEPT !.root_objects = RemoveFirst(@, object_id)]
             children == s2.objects[object_id + 1].children
             r  == remove_children(s2, children)
         IN  IF r.ok
             THEN [ok |-> TRUE,
                   s |-> [r.s EXCEPT !.object_map = MapRemove(@, name)]]
             ELSE r
    ELSE [ok |-> FALSE, s |-> s]

\* world_matrix that stops at the object's own local matrix.
world_matrix_own_only(objs, id) == Transform_matrix(objs[id + 1].transform)

\* SceneObject::world_matrix(scene) of object id: the parent's world matrix
\* (through the parent index, when it is Some and within the storage) times
\* the local matrix.
RECURSIVE world_matrix(_, _)
world_matrix(objs, id) ==
    LET local_matrix == Transform_matrix(objs[id + 1].transform)
        parent_id    == objs[id + 1].parent
    IN  IF parent_id # None /\ parent_id < Len(objs)
        THEN Mat4_mul(world_matrix(objs, parent_id), local_matrix)
        ELSE local_matrix

\* update_object_transform that hands its children the matrix it was given
\* instead of the world matrix it computed.
RECURSIVE update_object_transform_skip_own(_, _, _)
update_object_transform_skip_own(objs, object_id, parent_transform) ==
    LET local_transform == Transform_matrix(objs[object_id + 1].transform)
        world_transform == Mat4_mul(parent_transform, local_transform)
        children        == objs[object_id + 1].children
    IN  {<<object_id, world_transform>>} \cup
        UNION {update_object_transform_skip_own(objs, children[i], parent_transform) :
                  i \in 1..Len(children)}

\* update_object_transform(object_id, parent_transform): the pairs
\* <<id, world_transform>> it computes for the object and, recursing with
\* the object's world matrix, for everything below it.  (The method keeps
\* world_transform in a local variable only.)
RECURSIVE update_object_transform(_, _, _)
update_object_transform(objs, object_id, parent_transform) ==
    LET local_transform == Transform_matrix(objs[object_id + 1].transform)
        world_transform == Mat4_mul(parent_transform, local_transform)
        children        == objs[object_id + 1].children
    IN  {<<object_id, world_transform>>} \cup
        UNION {update_object_transform(objs, children[i], world_transform) :
                  i \in 1..Len(children)}

\* Scene::update_transforms: every root is updated with the identity as its
\* parent matrix.
update_transforms(s) ==
    UNION {update_object_transform(s.objects, s.root_objects[i], Mat4_IDENTITY) :
              i \in 1..Len(s.root_objects)}

\* traverse_internal(objects, f): the ids handed to the visitor, in order.
\* Each id of the slice is visited and then its children list is walked,
\* before the next id of the slice.
RECURSIVE traverse_internal(_, _)
traverse_internal(objs, ids) ==
    IF ids = <<>>
    THEN <<>>
    ELSE LET object_id == Head(ids)
         IN  <<object_id>>
                 \o traverse_internal(objs, objs[object_id + 1].children)
                 \o traverse_internal(objs, Tail(ids))

\* Scene::traverse(f): the walk starts from the root list.
traverse(s) == traverse_internal(s.objects, s.root_objects)

\* ------------------------------------------------------------------------
\* LightManager (lighting.rs)
\* ------------------------------------------------------------------------
\* The length of LightingUBO::lights, [Light; 4].
NumLights == 4

\* The largest index handed to update_light and remove_light; NumLights and
\* above are out of range.
MaxLightIndex == 4

\* Light { position, color, intensity }; the intensity is counted in halves
\* (1.0 is 2, 0.5 is 1).
Light(position, color, intensity) ==
    [position |-> position, color |-> color, intensity |-> intensity]

\* The light remove_light and clear_lights store: all fields zero.
Light_zero == Light(Vec3_ZERO, Vec3_ZERO, 0)

\* No light argument (light_call of a call that takes none).
NoLight == [position |-> "none", color |-> "none", intensity |-> 0]

\* LightingUBO::new().lights: the four preset lights.
LightingUBO_new ==
    <<Light(<<0, 0, 2>>, <<1, 1, 1>>, 2),
      Light(<<2, 2, 2>>, <<1, 0, 0>>, 1),
      Light(<<-2, 2, 2>>, <<0, 1, 0>>, 1),
      Light(<<0, -2, 2>>, <<0, 0, 1>>, 1)>>

\* LightManager::new().
LightManager_new == LightingUBO_new

\* The lights a caller passes: one at the origin, one at the position of
\* the first preset, two elsewhere.
LightArgs ==
    {Light(Vec3_ZERO, <<1, 1, 0>>, 2),
     Light(<<0, 0, 2>>, <<1, 1, 0>>, 2),
     Light(<<1, 0, 0>>, <<1, 1, 0>>, 2),
     Light(<<0, 1, 0>>, <<1, 1, 0>>, 1)}

\* The slots whose position is Vec3::ZERO.
zero_slots(ls) == {i \in 1..Len(ls) : ls[i].position = Vec3_ZERO}

\* The slot the for loop of add_light reaches first.
first_zero_slot(ls) ==
    CHOOSE i \in zero_slots(ls) : \A j \in zero_slots(ls) : i <= j

\* add_light without the duplicate-position test.
add_light_unchecked(ls, light) ==
    IF zero_slots(ls) # {}
    THEN [ok |-> TRUE, lights |-> [ls EXCEPT ![first_zero_slot(ls)] = light]]
    ELSE [ok |-> FALSE, lights |-> ls]

\* LightManager::add_light(light): false when some slot has the light's
\* position; otherwise the first slot at Vec3::ZERO is overwritten and the
\* result is true; false when there is none.
add_light(ls, light) ==
    IF \E i \in 1..Len(ls) : ls[i].position = light.position
    THEN [ok |-> FALSE, lights |-> ls]
    ELSE IF zero_slots(ls) # {}
         THEN [ok |-> TRUE, lights |-> [ls EXCEPT ![first_zero_slot(ls)] = light]]
         ELSE [ok |-> FALSE, lights |-> ls]

\* LightManager::clear_lights(): every slot becomes the zero light.
clear_lights(ls) == [i \in 1..Len(ls) |-> Light_zero]

\* LightManager::update_light(index, light): the slot is assigned when the
\* index is in range.
update_light(ls, index, light) ==
    IF index >= Len(ls)
    THEN [ok |-> FALSE, lights |-> ls]
    ELSE [ok |-> TRUE, lights |-> [ls EXCEPT ![index + 1] = light]]

\* LightManager::remove_light(index): the slot becomes the zero light when
\* the index is in range.
remove_light(ls, index) ==
    IF index >= Len(ls)
    THEN [ok |-> FALSE, lights |-> ls]
    ELSE [ok |-> TRUE, lights |-> [ls EXCEPT ![index + 1] = Light_zero]]

\* ------------------------------------------------------------------------
\* Scene actions
\* ------------------------------------------------------------------------
SceneInit ==
    /\ objects = Scene_new.objects
    /\ object_map = Scene_new.object_map
    /\ root_objects = Scene_new.root_objects
    /\ scene_call = [op |-> "new", name |-> NoName, parent |-> NoName,
                     ok |-> TRUE, id |-> None]
    /\ removed = {}
    /\ world_transforms = {}
    /\ lights = LightManager_new
    /\ light_call = [op |-> "new", ok |-> TRUE, light |-> NoLight, index |-> None]
    /\ origin_stores = {}

AddObject(name, transform, parent) ==
    /\ Len(objects) < MaxObjects
    /\ LET r == add_object(SceneState, name, transform, parent)
       IN  /\ objects' = r.s.objects
           /\ object_map' = r.s.object_map
           /\ root_objects' = r.s.root_objects
           /\ scene_call' = [op |-> "add_object", name |-> name,
                             parent |-> parent, ok |-> r.ok, id |-> r.id]
           /\ removed' = removed
           /\ world_transforms' = {}
           /\ UNCHANGED <<light_vars, emitter_vars, behavior_vars, particle_vars>>

RemoveObject(name) ==
    LET r == remove_object(SceneState, name)
    IN  /\ objects' = r.s.objects
        /\ object_map' = r.s.object_map
        /\ root_objects' = r.s.root_objects
        /\ scene_call' = [op |-> "remove_object", name |-> name,
                          parent |-> NoName, ok |-> r.ok, id |-> None]
        /\ removed' = IF name \in DOMAIN object_map
                      THEN removed \cup {object_map[name]}
                               \cup Descendants(objects, object_map[name])
                      ELSE removed
        /\ world_transforms' = {}
        /\ UNCHANGED <<light_vars, emitter_vars, behavior_vars, particle_vars>>

\* scene.get_object_mut(name) and, when it is Some, an assignment to the
\* object's public transform field.
SetTransform(name, transform) ==
    /\ objects' = IF name \in DOMAIN object_map
                  THEN [objects EXCEPT ![object_map[name] + 1].transform = transform]
                  ELSE objects
    /\ scene_call' = [op |-> "set_transform", name |-> name, parent |-> NoName,
                      ok |-> name \in DOMAIN object_map, id |-> None]
    /\ world_transforms' = {}
    /\ UNCHANGED <<object_map, root_objects, removed>>
    /\ UNCHANGED <<light_vars, emitter_vars, behavior_vars, particle_vars>>

\* Scene::update_transforms: no field of the scene is assigned.
UpdateTransforms ==
    /\ scene_call' = [op |-> "update_transforms", name |-> NoName,
                      parent |-> NoName, ok |-> TRUE, id |-> None]
    /\ world_transforms' = update_transforms(SceneState)
    /\ UNCHANGED <<objects, object_map, root_objects, removed>>
    /\ UNCHANGED <<light_vars, emitter_vars, behavior_vars, particle_vars>>

\* ------------------------------------------------------------------------
\* Particle (particle.rs:88-202)
\* ------------------------------------------------------------------------
\* Duration subtraction without the saturation: the difference as it is,
\* below zero when b > a.
PlainSub(a, b) == a - b

\* Duration::saturating_sub
SaturatingSub(a, b) == IF a > b THEN a - b ELSE 0

\* enum ParticleType (particle.rs:6-20)
ParticleTypes == {"Debris", "Smoke", "Fire", "Spark", "Glow", "Flash",
                  "Shockwave", "ElectricArc", "TimeDistortion", "PlasmaFlow",
                  "IonicDischarge", "QuantumFluctuation"}

\* The ParticleEffectType values explored: Fade has an arm of its own in
\* ParticleEffect::update, Glow falls to the default arm.
EffectTypes == {"Fade", "Glow"}

\* ParticleEffect::update(dt): elapsed grows by dt; no arm of the match
\* does anything else.
ParticleEffect_update(effect, dt) ==
    LET e == [effect EXCEPT !.elapsed = @ + dt]
    IN  CASE e.effect_type = "Fade" -> e
          [] OTHER -> e

\* effects.retain with the test elapsed <= duration: an effect whose elapsed
\* time has just reached its duration stays.
retain_effects_through_end(effects) ==
    SelectSeq(effects, LAMBDA e : e.elapsed <= e.duration)

\* self.effects.retain(|effect| effect.elapsed < effect.duration)
retain_effects(effects) ==
    SelectSeq(effects, LAMBDA e : e.elapsed < e.duration)

\* Particle::new that takes the type from elsewhere than the Debris
\* literal: a Smoke particle.
Particle_new_smoke(config, id) ==
    [position |-> config.position,
     lifetime |-> config.particle_lifetime,
     age |-> 0,
     particle_type |-> "Smoke",
     effects |-> <<>>,
     id |-> id, born |-> config.particle_lifetime, lived |-> 0,
     updated |-> FALSE]

\* Particle::new(config).  position is the spawn position handed over in the
\* config; the type is fixed to Debris, the age to zero, the effects to none.
\* id, born, lived and updated are history fields of the model, not fields
\* of the struct: the particle's number in spawn order (0-based), the
\* lifetime it was given, the time of the updates it has gone through, and
\* whether it has gone through any.
Particle_new(config, id) ==
    [position |-> config.position,
     lifetime |-> config.particle_lifetime,
     age |-> 0,
     particle_type |-> "Debris",
     effects |-> <<>>,
     id |-> id, born |-> config.particle_lifetime, lived |-> 0,
     updated |-> FALSE]

\* Particle::update that also advances the age by dt.
Particle_update_aging(p, dt) ==
    [p EXCEPT !.lifetime = SaturatingSub(@, dt),
              !.age = @ + dt,
              !.effects = retain_effects([i \in 1..Len(p.effects) |->
                                             ParticleEffect_update(p.effects[i], dt)]),
              !.lived = @ + dt, !.updated = TRUE]

\* Particle::update(dt): every arm of the match subtracts dt from the
\* remaining lifetime, saturating at zero; age is not touched.  (The arms
\* differ in velocity, size and rotation, which the model does not carry.)
\* Then every effect is updated and the expired ones are dropped.
Particle_update(p, dt) ==
    LET q == CASE p.particle_type = "Debris" ->
                    [p EXCEPT !.lifetime = SaturatingSub(@, dt)]
               [] p.particle_type = "Smoke" ->
                    [p EXCEPT !.lifetime = SaturatingSub(@, dt)]
               [] p.particle_type = "Fire" ->
                    [p EXCEPT !.lifetime = SaturatingSub(@, dt)]
               [] p.particle_type = "Spark" ->
                    [p EXCEPT !.lifetime = SaturatingSub(@, dt)]
               [] p.particle_type = "Glow" ->
                    [p EXCEPT !.lifetime = SaturatingSub(@, dt)]
               [] p.particle_type = "Flash" ->
                    [p EXCEPT !.lifetime = SaturatingSub(@, dt)]
               [] p.particle_type = "Shockwave" ->
                    [p EXCEPT !.lifetime = SaturatingSub(@, dt)]
               [] p.particle_type = "ElectricArc" ->
                    [p EXCEPT !.lifetime = SaturatingSub(@, dt)]
               [] p.particle_type = "TimeDistortion" ->
                    [p EXCEPT !.lifetime = SaturatingSub(@, dt)]
               [] OTHER ->
                    [p EXCEPT !.lifetime = SaturatingSub(@, dt)]
        updated_effects == [i \in 1..Len(q.effects) |->
                               ParticleEffect_update(q.effects[i], dt)]
    IN  [q EXCEPT !.effects = retain_effects(updated_effects),
                  !.lived = @ + dt, !.updated = TRUE]

\* The effect lists a caller may have pushed onto Particle::effects: each
\* effect with a type, a duration and no time elapsed.
RECURSIVE EffectLists(_)
EffectLists(n) ==
    IF n = 0 THEN {<<>>}
    ELSE EffectLists(n - 1) \cup
         {Append(l, [effect_type |-> t, duration |-> d, elapsed |-> 0]) :
             l \in {k \in EffectLists(n - 1) : Len(k) = n - 1},
             t \in EffectTypes, d \in 0..MaxEffectDuration}

\* Particle::default(): Debris, one second to live, no effects.
Particle_default ==
    Particle_new([position |-> [kind |-> "Point", index |-> 0],
                  particle_lifetime |-> OneSecond], 0)

\* A particle as constructed, no call made on it.
LoneParticleIdle ==
    /\ particle = Particle_default
    /\ particle_call = [op |-> "new", dt |-> 0, effects_before |-> 0]

\* A particle built as a struct literal over Particle::default(): any type,
\* any lifetime, any effects (all fields are public).
ParticleInit ==
    /\ \E t \in ParticleTypes, l \in 0..MaxLifetime, es \in EffectLists(MaxEffects) :
          particle = [Particle_default EXCEPT !.particle_type = t,
                                              !.lifetime = l, !.born = l,
                                              !.effects = es]
    /\ particle_call = [op |-> "new", dt |-> 0, effects_before |-> 0]

\* Particle::update(dt) on the particle.
ParticleUpdate(dt) ==
    /\ particle.lived + dt <= MaxAge
    /\ particle' = Particle_update(particle, dt)
    /\ particle_call' = [op |-> "update", dt |-> dt,
                         effects_before |-> Len(particle.effects)]
    /\ UNCHANGED renderer_vars
    /\ UNCHANGED <<scene_vars, emitter_vars, behavior_vars>>

\* ------------------------------------------------------------------------
\* EffectRenderer (particle_effects.rs:52-76)
\* ------------------------------------------------------------------------
\* enum EffectType (particle_effects.rs:12-24)
RenderEffectTypes == {"Glow", "Trail", "Shockwave", "ElectricArc", "Distortion",
                      "VolumetricLight", "Portal", "BlackHole", "TimeRift",
                      "HologramGlitch"}

\* No call made yet.
NoRender == [kind |-> "none", effect_type |-> "none", progress |-> <<0, 1>>]

\* The call ended in a panic.
RenderPanicked == [kind |-> "panic", effect_type |-> "none", progress |-> <<0, 1>>]

\* progress = (elapsed / duration).min(1.0) as a fraction <<n, d>>: with a
\* zero duration the quotient is infinite or NaN and min gives 1.0.
render_progress(elapsed, duration) ==
    IF duration = 0 \/ elapsed >= duration THEN <<1, 1>> ELSE <<elapsed, duration>>

\* EffectRenderer::render_effect(effect, position).  self.time -
\* effect.start_time is Duration's Sub, which panics when the result would be
\* negative; otherwise the render function of the effect's type is called
\* with the progress (the render data is written with the type and the
\* progress; colour, size, transform and noise are not carried).
render_effect(time, effect) ==
    IF time < effect.start_time
    THEN RenderPanicked
    ELSE [kind |-> "data", effect_type |-> effect.effect_type,
          progress |-> render_progress(time - effect.start_time, effect.duration)]

RendererInit ==
    /\ renderer_time \in 0..MaxTime
    /\ rendered_effect \in [effect_type : RenderEffectTypes,
                             start_time : 0..MaxTime,
                             duration : 0..MaxEffectDuration]
    /\ render_data = NoRender

RendererIdle ==
    /\ renderer_time = 0
    /\ rendered_effect = [effect_type |-> "Glow", start_time |-> 0, duration |-> 0]
    /\ render_data = NoRender

RenderEffect ==
    /\ render_data = NoRender
    /\ render_data' = render_effect(renderer_time, rendered_effect)
    /\ UNCHANGED <<renderer_time, rendered_effect>>
    /\ UNCHANGED lone_particle_vars
    /\ UNCHANGED <<scene_vars, emitter_vars, behavior_vars>>

\* ------------------------------------------------------------------------
\* ParticleEmitter (particle.rs:215-411)
\* ------------------------------------------------------------------------
\* The hard-coded pool limit tested by emit() (particle.rs:357).
PoolCap == 100

\* max_particles as set by ParticleEmitterBuilder::build (particle.rs:314).
DefaultMaxParticles == 100

\* The emission patterns explored: the five patterns without a count and
\* Ring{count} with count from zero (count is a u32).  A spawn position is
\* written as the pattern's placement: the pattern's kind and, for Ring, the
\* angle index (angle = index * TAU / count around the ring).  The radii,
\* heights and the random direction of Sphere are not carried.
Patterns == {[kind |-> k, count |-> 0] :
                k \in {"Point", "Sphere", "Cone", "Spiral", "Burst"}} \cup
            {[kind |-> "Ring", count |-> c] : c \in 0..MaxRingCount}

EmitterTypes == {"Debris", "Smoke", "Fire"}

\* The spawn position computed by emit() (particle.rs:361-397): for Ring the
\* index is the current pool length modulo count.
spawn_pos(pattern, pool) ==
    IF pattern.kind = "Ring"
    THEN [kind |-> "Ring", index |-> Len(pool) % pattern.count]
    ELSE [kind |-> pattern.kind, index |-> 0]

\* Whether emit() panics: past the early return, the Ring arm computes
\* particles.len() % count, a remainder with a divisor of zero when count
\* is 0 (particle.rs:377).
emit_panics(pool, pattern) ==
    Len(pool) < PoolCap /\ pattern.kind = "Ring" /\ pattern.count = 0

\* particle_lifetime of a ParticleEmitterBuilder on which particle_lifetime()
\* was not called: Duration::default() from the derived Default.
DefaultParticleLifetime == 0

\* emit() that leaves the lifetime of ParticleConfig::default() in the
\* config: one second, whatever the emitter's particle_lifetime.
emit_one_second(pool, pattern, lifetime, id) ==
    IF Len(pool) >= PoolCap
    THEN pool
    ELSE Append(pool, Particle_new([position |-> spawn_pos(pattern, pool),
                                    particle_lifetime |-> OneSecond], id))

\* ParticleEmitter::emit on the pool, when it does not panic: nothing when
\* the pool holds 100 particles or more, else a new particle is pushed.
emit(pool, pattern, lifetime, id) ==
    IF Len(pool) >= PoolCap
    THEN pool
    ELSE Append(pool, Particle_new([position |-> spawn_pos(pattern, pool),
                                    particle_lifetime |-> lifetime], id))

\* retain_mut with the cull test age <= lifetime: a particle whose lifetime
\* has run out stays in the pool.
retain_updated_keep_expired(pool, dt) ==
    SelectSeq([i \in 1..Len(pool) |-> Particle_update(pool[i], dt)],
              LAMBDA p : p.age <= p.lifetime)

\* particles.retain_mut(|p| { p.update(dt); p.age < p.lifetime })
retain_updated(pool, dt) ==
    SelectSeq([i \in 1..Len(pool) |-> Particle_update(pool[i], dt)],
              LAMBDA p : p.age < p.lifetime)

\* update(dt) with the two halves swapped: simulate and cull, then emit.
updated_pool_simulate_first(pool, due, pattern, lifetime, id, dt) ==
    IF due THEN emit(retain_updated(pool, dt), pattern, lifetime, id)
    ELSE retain_updated(pool, dt)

\* The pool after update(dt): emit() first when the timer is due, then every
\* particle (a new one included) is updated and culled.
updated_pool(pool, due, pattern, lifetime, id, dt) ==
    retain_updated(IF due THEN emit(pool, pattern, lifetime, id) ELSE pool, dt)

\* ParticleEmitterBuilder::build: the builder's settings, an empty pool,
\* zero age and timer, max_particles 100, emission_interval one second.
EmitterInit ==
    /\ emitter_position = "built"
    /\ spread_angle = "built"
    /\ initial_velocity = "built"
    /\ particle_size = "built"
    /\ direction = "built"
    /\ emission_rate = "built"
    /\ particle_type \in EmitterTypes
    /\ emission_pattern \in Patterns
    /\ particle_lifetime \in {DefaultParticleLifetime} \cup (1..MaxLifetime)
    /\ particles = <<>>
    /\ age = 0
    /\ max_particles = DefaultMaxParticles
    /\ emit_timer = 0
    /\ emission_interval = OneSecond
    /\ spawn_count = 0
    /\ emitter_call = [op |-> "build", dt |-> 0]

\* The timer test with the interval carried over: the time beyond the
\* interval stays in the timer.
timer_after_carry(timer, interval) ==
    IF timer >= interval THEN timer - interval ELSE timer

\* The emission timer after update's test (particle.rs:325-328), given the
\* timer with dt already added: back to Duration::ZERO when it has reached
\* the interval.
timer_after(timer, interval) ==
    IF timer >= interval THEN 0 ELSE timer

\* The match on particle_type with the Smoke arm taken for every type: the
\* direction is perturbed whatever the type.
direction_after_any(type, dir) == "perturbed"

\* The Smoke arm of the match in update (particle.rs:337-344): direction
\* gets an age-dependent offset and is normalised; every other type leaves
\* it alone.
direction_after(type, dir) == IF type = "Smoke" THEN "perturbed" ELSE dir

\* The Fire arm (particle.rs:334-336): emission_rate is multiplied by an
\* age-dependent factor; every other type leaves it alone.
emission_rate_after(type, rate) == IF type = "Fire" THEN "modulated" ELSE rate

\* ParticleEmitter::update(dt)
Update(dt) ==
    LET timer == emit_timer + dt
        due   == timer >= emission_interval
        pool  == updated_pool(particles, due, emission_pattern,
                              particle_lifetime, spawn_count, dt)
        spawned == due /\ Len(particles) < PoolCap
    IN  /\ emitter_call.op # "panicked"
        /\ ~(due /\ emit_panics(particles, emission_pattern))
        /\ age + dt <= MaxAge
        /\ spawned => spawn_count < MaxSpawn
        /\ emit_timer' = timer_after(timer, emission_interval)
        /\ age' = age + dt
        /\ emission_rate' = emission_rate_after(particle_type, emission_rate)
        /\ direction' = direction_after(particle_type, direction)
        /\ particles' = pool
        /\ spawn_count' = IF spawned THEN spawn_count + 1 ELSE spawn_count
        /\ emitter_call' = [op |-> "update", dt |-> dt]
        /\ UNCHANGED <<particle_type, emission_pattern, max_particles,
                       particle_lifetime, emission_interval>>
        /\ UNCHANGED emitter_fixed
        /\ UNCHANGED <<scene_vars, behavior_vars, particle_vars>>

\* ParticleEmitter::update(dt) that panics in its call of emit(): the timer
\* has been reset by then, nothing after the call is run.
UpdatePanics(dt) ==
    /\ emitter_call.op # "panicked"
    /\ emit_timer + dt >= emission_interval
    /\ emit_panics(particles, emission_pattern)
    /\ emit_timer' = timer_after(emit_timer + dt, emission_interval)
    /\ emitter_call' = [op |-> "panicked", dt |-> dt]
    /\ UNCHANGED <<direction, emission_rate, particle_type, particles,
                   emission_pattern, age, max_particles, particle_lifetime,
                   emission_interval, spawn_count>>
    /\ UNCHANGED emitter_fixed
    /\ UNCHANGED <<scene_vars, behavior_vars, particle_vars>>

\* ParticleEmitter::emit() called directly, panicking.
EmitPanics ==
    /\ emitter_call.op # "panicked"
    /\ emit_panics(particles, emission_pattern)
    /\ emitter_call' = [op |-> "panicked", dt |-> 0]
    /\ UNCHANGED <<direction, emission_rate, particle_type, particles,
                   emission_pattern, age, max_particles, particle_lifetime,
                   emit_timer, emission_interval, spawn_count>>
    /\ UNCHANGED emitter_fixed
    /\ UNCHANGED <<scene_vars, behavior_vars, particle_vars>>

\* ParticleEmitter::emit() called directly.
Emit ==
    /\ emitter_call.op # "panicked"
    /\ ~emit_panics(particles, emission_pattern)
    /\ spawn_count < MaxSpawn
    /\ particles' = emit(particles, emission_pattern, particle_lifetime, spawn_count)
    /\ spawn_count' = IF Len(particles) < PoolCap THEN spawn_count + 1
                      ELSE spawn_count
    /\ emitter_call' = [op |-> "emit", dt |-> 0]
    /\ UNCHANGED <<direction, emission_rate, particle_type, emission_pattern,
                   age, max_particles, particle_lifetime, emit_timer,
                   emission_interval>>
    /\ UNCHANGED emitter_fixed
    /\ UNCHANGED <<scene_vars, behavior_vars, particle_vars>>

\* An assignment to the public field max_particles, to a limit the pool
\* respects at the time.
SetMaxParticles(n) ==
    /\ emitter_call.op # "panicked"
    /\ Len(particles) <= n
    /\ max_particles' = n
    /\ emitter_call' = [op |-> "set_max_particles", dt |-> 0]
    /\ UNCHANGED <<direction, emission_rate, particle_type, particles,
                   emission_pattern, age, particle_lifetime, emit_timer,
                   emission_interval, spawn_count>>
    /\ UNCHANGED emitter_fixed
    /\ UNCHANGED <<scene_vars, behavior_vars, particle_vars>>


\* ------------------------------------------------------------------------
\* PathFollowBehavior (particle_behavior.rs:174-223)
\* ------------------------------------------------------------------------
\* Points are <<x, y>> with whole coordinates (z = 0).
Points == (0..MaxCoord) \X (0..1)

\* Vec3::distance, squared (distances are only compared).
DistSq(a, b) == (a[1] - b[1]) * (a[1] - b[1]) + (a[2] - b[2]) * (a[2] - b[2])

\* The scan for the closest waypoint (particle_behavior.rs:189-200): the
\* 0-based index of the first waypoint at the least distance (a later
\* waypoint replaces the candidate only when strictly closer).
closest_index(pth, position) ==
    (CHOOSE i \in 1..Len(pth) :
        /\ \A j \in 1..Len(pth) : DistSq(position, pth[i]) <= DistSq(position, pth[j])
        /\ \A j \in 1..(i - 1) : DistSq(position, pth[j]) > DistSq(position, pth[i])) - 1

\* The steering towards a target (particle_behavior.rs:212-221): to_target
\* scaled down within arrival_threshold, else at full look-ahead speed.  The
\* force is written [kind, target, to_target]; its length is not computed.
steer(pth, index, position, threshold) ==
    LET target    == pth[index + 1]
        to_target == <<target[1] - position[1], target[2] - position[2]>>
    IN  [kind |-> IF DistSq(target, position) < threshold * threshold
                  THEN "arrive" ELSE "seek",
         target |-> index, to_target |-> to_target]

\* No call made yet.
NoForce == [kind |-> "none", target |-> None, to_target |-> <<0, 0>>]

\* Vec3::ZERO returned early.
ZeroForce == [kind |-> "zero", target |-> None, to_target |-> <<0, 0>>]

\* The result of a call that ended in a panic.
Panicked == [kind |-> "panic", target |-> None, to_target |-> <<0, 0>>]

\* calculate_force without the test for an empty path: self.path[0] is out
\* of bounds on an empty Vec.
calculate_force_unguarded(pth, looped, position, velocity, threshold) ==
    IF pth = <<>>
    THEN Panicked
    ELSE LET target_index     == closest_index(pth, position)
             look_ahead_index == (target_index + 1) % Len(pth)
         IN  IF look_ahead_index < Len(pth)
             THEN steer(pth, look_ahead_index, position, threshold)
             ELSE IF looped
                  THEN steer(pth, 0, position, threshold)
                  ELSE ZeroForce

\* PathFollowBehavior::calculate_force(position, velocity); the velocity is
\* not read.
calculate_force(pth, looped, position, velocity, threshold) ==
    IF pth = <<>>
    THEN ZeroForce
    ELSE LET target_index     == closest_index(pth, position)
             look_ahead_index == (target_index + 1) % Len(pth)
         IN  IF look_ahead_index < Len(pth)
             THEN steer(pth, look_ahead_index, position, threshold)
             ELSE IF looped
                  THEN steer(pth, 0, position, threshold)
                  ELSE ZeroForce

\* Whether a returned force is the zero vector: the early return, or an
\* arrival exactly on the target (to_target scaled by distance 0).
IsZeroForce(f) ==
    \/ f.kind = "zero"
    \/ f.kind = "arrive" /\ f.to_target = <<0, 0>>

Paths == UNION {[1..n -> Points] : n \in 0..MaxPathLen}

\* The velocities explored.
Velocities == {<<0, 0>>, <<1, 0>>}

PathInit ==
    /\ path \in Paths
    /\ loop_path \in BOOLEAN
    /\ arrival_threshold \in 1..2
    /\ pf_position \in Points
    /\ pf_velocity \in Velocities
    /\ pf_force = NoForce

PathIdle ==
    /\ path = <<>>
    /\ loop_path = FALSE
    /\ arrival_threshold = 1
    /\ pf_position = <<0, 0>>
    /\ pf_velocity = <<0, 0>>
    /\ pf_force = NoForce

CalculateForce ==
    /\ pf_force = NoForce
    /\ pf_force' = calculate_force(path, loop_path, pf_position, pf_velocity,
                                   arrival_threshold)
    /\ UNCHANGED <<path, loop_path, arrival_threshold, pf_position, pf_velocity>>
    /\ UNCHANGED <<flock_vars, vortex_vars>>
    /\ UNCHANGED <<scene_vars, emitter_vars, particle_vars>>

\* ------------------------------------------------------------------------
\* FlockingBehavior (particle_behavior.rs:38-97)
\* ------------------------------------------------------------------------
\* The neighbor test with distance >= 0.0: a neighbor at the particle's own
\* position counts.
perceived_at_zero(dist_sq, perception) ==
    dist_sq >= 0 /\ perception > 0 /\ dist_sq < perception * perception

\* distance > 0.0 && distance < self.perception_radius, on the squared
\* distance: no distance is below a radius that is not positive.
perceived(dist_sq, perception) ==
    dist_sq > 0 /\ perception > 0 /\ dist_sq < perception * perception

RECURSIVE SumVec(_, _)
SumVec(s, k) ==
    IF s = <<>> THEN <<0, 0>>
    ELSE LET rest == SumVec(Tail(s), k)
         IN  <<Head(s)[k][1] + rest[1], Head(s)[k][2] + rest[2]>>

\* No call made yet.
NoSteering == [kind |-> "none", total |-> 0, separation |-> <<>>,
               alignment |-> <<0, 0>>, cohesion |-> <<0, 0>>]

\* separation + alignment + cohesion with all three still Vec3::ZERO.
ZeroSteering == [kind |-> "zero", total |-> 0, separation |-> <<>>,
                 alignment |-> <<0, 0>>, cohesion |-> <<0, 0>>]

\* FlockingBehavior::calculate_forces(position, velocity, neighbors).  The
\* loop accumulates over the neighbors that pass the test; with total > 0
\* the three sums are averaged, weighted and limited, which the model does
\* not compute: the force is then written with the accumulated values (the
\* offsets position - pos for separation, the sums of vel and pos for
\* alignment and cohesion).  With total = 0 the three stay Vec3::ZERO.
calculate_forces(position, velocity, nbrs, perception) ==
    LET counted == SelectSeq(nbrs, LAMBDA n : perceived(DistSq(position, n[1]), perception))
        total   == Len(counted)
    IN  IF total > 0
        THEN [kind |-> "steering", total |-> total,
              separation |-> [i \in 1..total |->
                                 <<position[1] - counted[i][1][1],
                                   position[2] - counted[i][1][2]>>],
              alignment |-> SumVec(counted, 2),
              cohesion |-> SumVec(counted, 1)]
        ELSE ZeroSteering

\* The neighbor lists explored: up to n neighbors, each at a point, all
\* moving alike.
NeighborLists(n) == UNION {[1..k -> Points \X {<<1, 0>>}] : k \in 0..n}

FlockInit ==
    /\ perception_radius \in -1..MaxRadius
    /\ fl_position \in Points
    /\ fl_velocity \in Velocities
    /\ neighbors \in NeighborLists(MaxNeighbors)
    /\ fl_force = NoSteering

FlockIdle ==
    /\ perception_radius = 1
    /\ fl_position = <<0, 0>>
    /\ fl_velocity = <<0, 0>>
    /\ neighbors = <<>>
    /\ fl_force = NoSteering

CalculateForces ==
    /\ fl_force = NoSteering
    /\ fl_force' = calculate_forces(fl_position, fl_velocity, neighbors,
                                    perception_radius)
    /\ UNCHANGED <<perception_radius, fl_position, fl_velocity, neighbors>>
    /\ UNCHANGED <<path_vars, vortex_vars>>
    /\ UNCHANGED <<scene_vars, emitter_vars, particle_vars>>

\* ------------------------------------------------------------------------
\* VortexBehavior (particle_behavior.rs:144-171)
\* ------------------------------------------------------------------------
\* No call made yet.
NoSwirl == [kind |-> "none", to_center |-> <<0, 0>>]

\* Vec3::ZERO from the else branch.
ZeroSwirl == [kind |-> "zero", to_center |-> <<0, 0>>]

\* calculate_force with the test distance <= radius * radius: the rim of the
\* vortex is inside.
vortex_force_with_rim(c, r, position) ==
    LET to_center == <<position[1] - c[1], position[2] - c[2]>>
        distance  == DistSq(position, c)
    IN  IF distance <= r * r
        THEN [kind |-> "swirl", to_center |-> to_center]
        ELSE ZeroSwirl

\* VortexBehavior::calculate_force(position): `distance` is the squared
\* length of to_center and is compared with radius * radius.  Inside, the
\* force is tangent * strength / sqrt(distance) plus the vertical lift,
\* which the model does not compute: it is written with to_center.
vortex_force(c, r, position) ==
    LET to_center == <<position[1] - c[1], position[2] - c[2]>>
        distance  == DistSq(position, c)
    IN  IF distance < r * r
        THEN [kind |-> "swirl", to_center |-> to_center]
        ELSE ZeroSwirl

VortexInit ==
    /\ center \in Points
    /\ radius \in 0..MaxRadius
    /\ vx_position \in Points
    /\ vx_force = NoSwirl

VortexIdle ==
    /\ center = <<0, 0>>
    /\ radius = 1
    /\ vx_position = <<0, 0>>
    /\ vx_force = NoSwirl

VortexCalculateForce ==
    /\ vx_force = NoSwirl
    /\ vx_force' = vortex_force(center, radius, vx_position)
    /\ UNCHANGED <<center, radius, vx_position>>
    /\ UNCHANGED <<path_vars, flock_vars>>
    /\ UNCHANGED <<scene_vars, emitter_vars, particle_vars>>

\* ------------------------------------------------------------------------
\* Scene properties
\* ------------------------------------------------------------------------
\* C3: remove_object on a registered object with K descendants removes
\* exactly K+1 objects (itself and its descendants, nothing else); afterwards
\* the registry, the root list and the children lists of the surviving
\* objects hold exactly the surviving objects.
C3_RemoveSubtreeStep ==
    (scene_call'.op = "remove_object" /\ scene_call'.name \in DOMAIN object_map) =>
        LET id   == object_map[scene_call'.name]
            gone == {id} \cup Descendants(objects, id)
            live == Registered(object_map)
        IN  /\ scene_call'.ok
            /\ gone \subseteq live
            /\ Registered(object_map') = live \ gone
            /\ Cardinality(live) - Cardinality(Registered(object_map'))
                  = Cardinality(Descendants(objects, id)) + 1
            /\ \A n \in DOMAIN object_map' : object_map'[n] = object_map[n]
            /\ root_objects' = Without(root_objects, gone)
            /\ \A i \in Registered(object_map') :
                  objects'[i + 1].children = Without(objects[i + 1].children, gone)
            /\ Reachable(objects', root_objects') = Registered(object_map')

\* C3: every remove_object step removes exactly the subtree and leaves
\* registry, root list and children lists consistent.
C3_RemoveSubtree == [][C3_RemoveSubtreeStep]_vars

\* C7: the registry is in sync with the hierarchy: a name is registered iff
\* exactly one object reachable from the roots carries it, and the registry
\* maps the name to that object.
C7_MapInSync ==
    \A n \in Names :
        LET carriers == {i \in Reachable(objects, root_objects) : objects[i + 1].name = n}
        IN  /\ n \in DOMAIN object_map <=> Cardinality(carriers) = 1
            /\ n \in DOMAIN object_map => carriers = {object_map[n]}

\* C15: traverse hands the visitor every object in the scene (every object
\* the registry holds) exactly once and no removed object, in depth-first
\* pre-order: the roots in root-list order, every object before the objects
\* below it, and the children of an object in children-list order.
C15_TraversePreorder ==
    LET visited == traverse(SceneState)
        At(id)  == Position(visited, id)
    IN  /\ \A i, j \in 1..Len(visited) : visited[i] = visited[j] => i = j
        /\ Registered(object_map) \subseteq Elems(visited)
        /\ Elems(visited) \cap removed = {}
        /\ SelectSeq(visited, LAMBDA id : id \in Elems(root_objects)) = root_objects
        /\ \A id \in Elems(visited) :
              /\ \A d \in Descendants(objects, id) : At(d) > At(id)
              /\ SelectSeq(visited, LAMBDA c : c \in Elems(objects[id + 1].children))
                    = objects[id + 1].children

\* A local transform applied to a point step by step: scaled component by
\* component, then rotated, then moved by the position.
LocalApply(t, p) ==
    LET scaled  == <<t.scale[1] * p[1], t.scale[2] * p[2], t.scale[3] * p[3]>>
        rotated == IF t.rotation = "quarter_z"
                   THEN <<0 - scaled[2], scaled[1], scaled[3]>>
                   ELSE scaled
    IN  Vec3_add(rotated, t.position)

\* The ids from the root down to id, along the parent indices.
RECURSIVE AncestorChain(_, _)
AncestorChain(objs, id) ==
    IF objs[id + 1].parent = None THEN <<id>>
    ELSE Append(AncestorChain(objs, objs[id + 1].parent), id)

\* A point of the local space of the last object of a chain taken to world
\* space: through the local transform of that object, then of its parent,
\* and so on up to the root.
RECURSIVE ChainApply(_, _, _)
ChainApply(objs, chain, p) ==
    IF chain = <<>> THEN p
    ELSE ChainApply(objs, SubSeq(chain, 1, Len(chain) - 1),
                    LocalApply(objs[chain[Len(chain)] + 1].transform, p))

\* The sum of the local positions along a chain.
RECURSIVE ChainSum(_, _)
ChainSum(objs, chain) ==
    IF chain = <<>> THEN Vec3_ZERO
    ELSE Vec3_add(ChainSum(objs, Tail(chain)), objs[Head(chain) + 1].transform.position)

\* The points an affine map is told by: the origin, the unit points, and
\* one more.
TestPoints == {<<0, 0, 0>>, <<1, 0, 0>>, <<0, 1, 0>>, <<0, 0, 1>>, <<1, 1, 1>>}

\* C16: after update_transforms the world transform of every node in the
\* hierarchy is the product of the local transforms of its ancestors and
\* itself, root first: it takes a local point where the local transforms,
\* applied from the node up to the root, take it.  SceneObject::world_matrix
\* gives the same matrix.  When every transform on the chain is a pure
\* translation the node's world position is the sum of the translations.
C16_WorldTransforms ==
    scene_call.op = "update_transforms" =>
        \A id \in Reachable(objects, root_objects) :
            LET chain == AncestorChain(objects, id)
                found == {pr \in world_transforms : pr[1] = id}
            IN  /\ Cardinality(found) = 1
                /\ \A pr \in found :
                      /\ \A p \in TestPoints :
                            Mat4_transform_point3(pr[2], p) = ChainApply(objects, chain, p)
                      /\ pr[2] = world_matrix(objects, id)
                      /\ (\A k \in 1..Len(chain) :
                              /\ objects[chain[k] + 1].transform.rotation = "identity"
                              /\ objects[chain[k] + 1].transform.scale = Vec3_ONE)
                          => Mat4_transform_point3(pr[2], Vec3_ZERO) = ChainSum(objects, chain)

\* update_transforms has run on root -> child -> grandchild with the local
\* translations (1,0,0), (0,1,0), (0,0,1): the grandchild's world position
\* is (1,1,1).
C16_Witness ==
    /\ scene_call.op = "update_transforms"
    /\ Len(objects) = 3
    /\ root_objects = <<0>>
    /\ objects[1].children = <<1>> /\ objects[2].children = <<2>>
    /\ objects[1].transform = Transform_new(<<1, 0, 0>>, "identity", Vec3_ONE)
    /\ objects[2].transform = Transform_new(<<0, 1, 0>>, "identity", Vec3_ONE)
    /\ objects[3].transform = Transform_new(<<0, 0, 1>>, "identity", Vec3_ONE)
    /\ \E pr \in world_transforms :
          pr[1] = 2 /\ Mat4_transform_point3(pr[2], Vec3_ZERO) = <<1, 1, 1>>

\* C17: Transform::matrix() scales first, then rotates, then translates: it
\* takes a local point p to rotation(scale * p) + position, which with the
\* identity rotation is scale * p + position component by component.
C17_ScaleRotateTranslate ==
    \A i \in 1..Len(objects), p \in TestPoints :
        LET t      == objects[i].transform
            mapped == Mat4_transform_point3(Transform_matrix(t), p)
        IN  /\ mapped = LocalApply(t, p)
            /\ t.rotation = "identity" =>
                  mapped = <<t.scale[1] * p[1] + t.position[1],
                             t.scale[2] * p[2] + t.position[2],
                             t.scale[3] * p[3] + t.position[3]>>

\* update_transforms has run on a root with scale (2,2,2), position (1,0,0)
\* and no rotation: its matrix takes (1,0,0) to (3,0,0).
C17_Witness ==
    /\ scene_call.op = "update_transforms"
    /\ \E pr \in world_transforms :
          /\ objects[pr[1] + 1].parent = None
          /\ objects[pr[1] + 1].transform = Transform_new(<<1, 0, 0>>, "identity", <<2, 2, 2>>)
          /\ Mat4_transform_point3(pr[2], <<1, 0, 0>>) = <<3, 0, 0>>

\* C22: object indices are stable identities.  A successful add_object
\* returns the number of successful adds so far (the length of the storage),
\* which is no index returned before, and stores the new object there; no
\* add_object or remove_object moves a stored object to another index, and
\* a registry entry that a call leaves in place keeps its index.
C22_StableIndicesStep ==
    /\ \A i \in 1..Len(objects) :
          /\ i <= Len(objects')
          /\ objects'[i].name = objects[i].name
          /\ objects'[i].transform = objects[i].transform
          /\ objects'[i].parent = objects[i].parent
    /\ (scene_call'.op = "add_object" /\ scene_call'.ok) =>
          /\ scene_call'.id = Len(objects)
          /\ Len(objects') = Len(objects) + 1
          /\ objects'[Len(objects')].name = scene_call'.name
          /\ object_map'[scene_call'.name] = scene_call'.id
          /\ scene_call'.id \notin removed
          /\ scene_call'.id \notin Registered(object_map)
          /\ \A n \in DOMAIN object_map \ {scene_call'.name} :
                n \in DOMAIN object_map' /\ object_map'[n] = object_map[n]
    /\ (scene_call'.op = "add_object" /\ ~scene_call'.ok) => objects' = objects
    /\ scene_call'.op = "remove_object" =>
          /\ Len(objects') = Len(objects)
          /\ \A n \in DOMAIN object_map' :
                n \in DOMAIN object_map /\ object_map'[n] = object_map[n]

\* C22: every add_object and remove_object step keeps indices stable.
C22_StableIndices == [][C22_StableIndicesStep]_vars

\* An add_object after a removal: the new object gets index 2, the index of
\* the removed object 0 is not given out again.
C22_Witness ==
    /\ scene_call.op = "add_object" /\ scene_call.ok
    /\ scene_call.id = 2
    /\ 0 \in removed
    /\ Len(objects) = 3
    /\ Cardinality(DOMAIN object_map) = 2

\* C4: from an empty Scene, add_object(a, no parent), add_object(b, parent a)
\* and then remove_object(a) leave no object in the scene: the registry and
\* the root list are empty and traverse reaches nothing.  (The flat storage
\* keeps the two removed SceneObjects: indices are never reused.)
C4_RoundTripStep ==
    \A a, b \in Names :
        ( /\ a # b
          /\ SceneState = add_object(add_object(Scene_new, a, Transform_default, NoName).s,
                                  b, Transform_default, a).s
          /\ scene_call'.op = "remove_object"
          /\ scene_call'.name = a )
        => /\ scene_call'.ok
           /\ DOMAIN object_map' = {}
           /\ root_objects' = <<>>
           /\ Reachable(objects', root_objects') = {}

\* C4: every remove_object(a) step from the scene built by add a, add b
\* under a empties the scene.
C4_RoundTrip == [][C4_RoundTripStep]_vars

\* The scene after add A (root), add B (parent A), remove A.
C4_Witness ==
    /\ scene_call.op = "remove_object" /\ scene_call.name = "A" /\ scene_call.ok
    /\ Len(objects) = 2
    /\ objects[1].name = "A" /\ objects[1].parent = None
    /\ objects[2].name = "B" /\ objects[2].parent = 0
    /\ DOMAIN object_map = {}
    /\ root_objects = <<>>

\* C5: add_object with a parent name that is not registered returns an error
\* and changes nothing: storage, registry, root list and every children list
\* are as before the call.
C5_AddMissingParentStep ==
    ( /\ scene_call'.op = "add_object"
      /\ scene_call'.parent # NoName
      /\ scene_call'.parent \notin DOMAIN object_map )
    => /\ ~scene_call'.ok
       /\ objects' = objects
       /\ object_map' = object_map
       /\ root_objects' = root_objects

\* C5: every add_object step with an unregistered parent name fails and
\* changes nothing.
C5_AddMissingParent == [][C5_AddMissingParentStep]_vars

\* A failed add_object on a scene that holds objects.
C5_Witness ==
    /\ scene_call.op = "add_object" /\ ~scene_call.ok
    /\ scene_call.parent # NoName
    /\ scene_call.parent \notin DOMAIN object_map
    /\ Len(objects) >= 2 /\ DOMAIN object_map # {}

\* C6: remove_object with a name that is not registered (never added, or
\* already removed) returns an error and changes nothing.
C6_RemoveAbsentStep ==
    ( /\ scene_call'.op = "remove_object"
      /\ scene_call'.name \notin DOMAIN object_map )
    => /\ ~scene_call'.ok
       /\ objects' = objects
       /\ object_map' = object_map
       /\ root_objects' = root_objects

\* C6: every remove_object step with an unregistered name fails and
\* changes nothing.
C6_RemoveAbsent == [][C6_RemoveAbsentStep]_vars

\* A failed remove_object of a name whose object was stored as a child and
\* lost its registry entry together with its parent.
C6_Witness ==
    /\ scene_call.op = "remove_object" /\ ~scene_call.ok
    /\ scene_call.name \notin DOMAIN object_map
    /\ \E i \in 1..Len(objects) :
          /\ objects[i].name = scene_call.name
          /\ objects[i].parent # None
          /\ objects[objects[i].parent + 1].name \notin DOMAIN object_map
          /\ objects[objects[i].parent + 1].name # scene_call.name
    /\ DOMAIN object_map # {}


\* ------------------------------------------------------------------------
\* Emitter properties
\* ------------------------------------------------------------------------
\* The history ids of the particles in a pool.
Ids(pool) == {pool[i].id : i \in 1..Len(pool)}

\* C1: the pool never holds more than max_particles particles.
C1_PoolWithinMax == Len(particles) <= max_particles

\* C2: a particle given lifetime L is out of the pool once the updates it has
\* gone through add up to L or more, stays out, and is in the pool after
\* every update before that.
C2_ExpiryStep ==
    /\ \A i \in 1..Len(particles') :
          particles'[i].updated => particles'[i].lived < particles'[i].born
    /\ Ids(particles') \subseteq Ids(particles) \cup {spawn_count}
    /\ emitter_call'.op = "update" =>
          /\ \A i \in 1..Len(particles) :
                particles[i].lived + emitter_call'.dt < particles[i].born
                    => particles[i].id \in Ids(particles')
          /\ (spawn_count' = spawn_count + 1 /\ emitter_call'.dt < particle_lifetime)
                    => spawn_count \in Ids(particles')

\* C2: every step keeps particles in the pool exactly while their
\* accumulated update time is below their lifetime.
C2_Expiry == [][C2_ExpiryStep]_vars

\* The first particle has expired while the second, spawned later with the
\* same lifetime, has gone through two ticks and is still in the pool.
C2_Witness ==
    /\ emitter_call.op = "update"
    /\ spawn_count >= 2
    /\ Len(particles) = 1
    /\ particles[1].id = 1
    /\ particles[1].lived >= 2
    /\ particles[1].lived < particles[1].born

\* C8: with a Ring pattern the k-th emitted particle (k = 0, 1, ...) is
\* placed at angle index k mod count.
C8_RingCycle ==
    emission_pattern.kind = "Ring" =>
        \A i \in 1..Len(particles) :
            particles[i].position.index = particles[i].id % emission_pattern.count

\* C10: a particle spawned by update(dt) is advanced by that dt in the same
\* update and goes through its cull: it is in the pool with remaining
\* lifetime particle_lifetime - dt when that is positive, and not in the pool
\* otherwise.
C10_SpawnThenSimulateStep ==
    (emitter_call'.op = "update" /\ spawn_count' = spawn_count + 1) =>
        LET dt  == emitter_call'.dt
            new == {i \in 1..Len(particles') : particles'[i].id = spawn_count}
        IN  IF particle_lifetime > dt
            THEN /\ Cardinality(new) = 1
                 /\ \A i \in new :
                       /\ particles'[i].lifetime = particle_lifetime - dt
                       /\ particles'[i].updated
                       /\ i = Len(particles')
            ELSE new = {}

\* C10: every update step that spawns a particle also simulates and
\* culls it.
C10_SpawnThenSimulate == [][C10_SpawnThenSimulateStep]_vars

\* An update with dt > 0 whose timer came due: the particle it spawned is the
\* newest in the pool and has already lost dt of its lifetime.
C10_Witness ==
    /\ emitter_call.op = "update" /\ emitter_call.dt > 0
    /\ emit_timer = 0
    /\ Len(particles) >= 2
    /\ particles[Len(particles)].id = spawn_count - 1
    /\ particles[Len(particles)].lived = emitter_call.dt
    /\ particles[Len(particles)].lifetime = particle_lifetime - emitter_call.dt

\* C11: update(dt) adds dt to emit_timer; when the sum has reached
\* emission_interval the timer is back at zero and emit() has run exactly
\* once, and when it has not the timer keeps the sum and nothing is emitted.
\* No update emits more than one particle, and after every update emit_timer
\* is below a positive emission_interval.
C11_EmitTimerStep ==
    emitter_call'.op = "update" =>
        LET sum == emit_timer + emitter_call'.dt
            emitted == Ids(particles') \ Ids(particles)
        IN  /\ IF sum >= emission_interval
               THEN /\ emit_timer' = 0
                    /\ spawn_count' = spawn_count + 1
                    /\ emitted \subseteq {spawn_count}
                    /\ emitter_call'.dt < particle_lifetime => emitted = {spawn_count}
               ELSE /\ emit_timer' = sum
                    /\ spawn_count' = spawn_count
                    /\ emitted = {}
            /\ Len(particles') <= Len(particles) + 1
            /\ emission_interval > 0 => emit_timer' < emission_interval

\* C11: every update step treats the emission timer this way.
C11_EmitTimer == [][C11_EmitTimerStep]_vars

\* An update whose dt took the timer past the interval, not just onto it:
\* the timer is at zero and one particle, the newest, was emitted.
C11_Witness ==
    /\ emitter_call.op = "update"
    /\ emitter_call.dt = MaxDt
    /\ age % OneSecond # 0
    /\ emit_timer = 0
    /\ spawn_count >= 1
    /\ Len(particles) >= 1
    /\ particles[Len(particles)].id = spawn_count - 1
    /\ particles[Len(particles)].lived = emitter_call.dt

\* C12: emit() called while the pool holds max_particles particles adds no
\* particle and changes no field of the emitter.
C12_EmitAtCapacityStep ==
    (emitter_call'.op = "emit" /\ Len(particles) = max_particles) =>
        /\ particles' = particles
        /\ UNCHANGED <<direction, emission_rate, particle_type,
                       emission_pattern, age, max_particles,
                       particle_lifetime, emit_timer, emission_interval>>

\* C12: every emit() step at capacity is a no-op.
C12_EmitAtCapacity == [][C12_EmitAtCapacityStep]_vars

\* C23: update(dt) adds exactly dt to the emitter's age on every call,
\* emitting or not; emission_rate changes only for a Fire emitter and
\* direction only for a Smoke emitter; position, spread_angle,
\* particle_type, emission_pattern, max_particles, initial_velocity,
\* particle_size, particle_lifetime and emission_interval do not change.
C23_UpdateFrameStep ==
    emitter_call'.op = "update" =>
        /\ age' = age + emitter_call'.dt
        /\ particle_type # "Fire" => emission_rate' = emission_rate
        /\ particle_type # "Smoke" => direction' = direction
        /\ UNCHANGED <<emitter_position, spread_angle, particle_type,
                       emission_pattern, max_particles, initial_velocity,
                       particle_size, particle_lifetime, emission_interval>>

\* C23: every update step changes the emitter's own fields this way.
C23_UpdateFrame == [][C23_UpdateFrameStep]_vars

\* A Fire emitter after an update that emitted: its age has grown, its rate
\* is modulated and its direction is as built.
C23_Witness ==
    /\ emitter_call.op = "update" /\ emitter_call.dt > 0
    /\ particle_type = "Fire"
    /\ age >= OneSecond
    /\ spawn_count >= 1
    /\ emission_rate = "modulated"
    /\ direction = "built"

\* C25: the age of a particle is never changed: it is zero when the particle
\* is constructed and zero after every update.  The cull test age < lifetime
\* of update is therefore the test lifetime > 0: the pool after an update
\* holds exactly the particles, the newly emitted one included, that have
\* lifetime left after losing dt, and every one of them has lifetime > 0.
C25_AgeStaysZeroStep ==
    /\ \A i \in 1..Len(particles') : particles'[i].age = 0
    /\ emitter_call'.op = "update" =>
          LET dt == emitter_call'.dt
          IN  /\ \A i \in 1..Len(particles') : particles'[i].lifetime > 0
              /\ \A i \in 1..Len(particles) :
                    particles[i].id \in Ids(particles') <=> particles[i].lifetime > dt
              /\ spawn_count' = spawn_count + 1 =>
                    (spawn_count \in Ids(particles') <=> particle_lifetime > dt)

\* C25: every step leaves the age of every pooled particle at zero and
\* every update culls by remaining lifetime.
C25_AgeStaysZero == [][C25_AgeStaysZeroStep]_vars

\* A pooled particle that has gone through updates of two ticks or more and
\* has lifetime left: its age is still zero.
C25_Witness ==
    /\ emitter_call.op = "update"
    /\ Len(particles) >= 1
    /\ particles[1].lived >= 2
    /\ particles[1].lifetime > 0
    /\ particles[1].age = 0

\* C26: every particle in the pool is a Debris particle, whatever the
\* emitter's own particle_type.
C26_PoolIsDebris ==
    \A i \in 1..Len(particles) : particles[i].particle_type = "Debris"

\* A Fire emitter whose pool holds a particle that has been updated.
C26_Witness ==
    /\ particle_type = "Fire"
    /\ Len(particles) >= 1
    /\ particles[1].updated
    /\ particles[1].particle_type = "Debris"

\* C28: an emitter built without particle_lifetime(..) has particle_lifetime
\* zero, and its pool is empty after every update(dt): a particle spawned by
\* the update (or by an emit() before it) is culled in it.
C28_DefaultLifetimeStep ==
    /\ emitter_call.op = "build" =>
          (particle_lifetime = DefaultParticleLifetime <=> particle_lifetime = 0)
    /\ (emitter_call'.op = "update" /\ particle_lifetime = DefaultParticleLifetime)
          => particles' = <<>>

\* C28: every update step of an emitter with the default lifetime leaves
\* the pool empty.
C28_DefaultLifetime == [][C28_DefaultLifetimeStep]_vars

\* An emitter with the default lifetime after an update with dt = 0 that
\* spawned its second particle: the pool is empty.
C28_Witness ==
    /\ emitter_call.op = "update" /\ emitter_call.dt = 0
    /\ particle_lifetime = DefaultParticleLifetime
    /\ age >= OneSecond
    /\ spawn_count >= 2
    /\ emit_timer = 0
    /\ particles = <<>>

\* What C29 says of add_light itself, on a step: there are four slots; the
\* call returns true exactly when no slot has the light's position and some
\* slot is at the origin, and then only the first such slot changes, to the
\* light; otherwise nothing changes.  A light at the origin is rejected.
C29_AddLightRule ==
    /\ Len(lights) = NumLights /\ Len(lights') = NumLights
    /\ light_call.op = "new" => zero_slots(lights) = {}
    /\ light_call'.op = "add_light" =>
          LET light == light_call'.light
              fresh == \A i \in 1..NumLights : lights[i].position # light.position
              free  == {i \in 1..NumLights : lights[i].position = Vec3_ZERO}
          IN  /\ light_call'.ok <=> (fresh /\ free # {})
              /\ light_call'.ok =>
                    \E i \in free :
                        /\ \A j \in free : i <= j
                        /\ lights'[i] = light
                        /\ \A j \in (1..NumLights) \ {i} : lights'[j] = lights[j]
              /\ ~light_call'.ok => lights' = lights
              /\ free = {} => ~light_call'.ok
              /\ light.position = Vec3_ZERO => ~light_call'.ok

\* add_light returns false until remove_light or clear_lights has freed a
\* slot, as C29 says it.
C29_FreedAsClaimedStep ==
    (light_call'.op = "add_light" /\ light_call'.ok)
    => origin_stores \cap {"remove_light", "clear_lights"} # {}

\* add_light returns false until some call has stored a light positioned at
\* the origin, and the calls that do are remove_light, clear_lights and
\* update_light with such a light.
C29_FreedStep ==
    /\ (light_call'.op = "add_light" /\ light_call'.ok) => origin_stores # {}
    /\ origin_stores' \subseteq {"remove_light", "clear_lights", "update_light"}
    /\ \A i \in 1..NumLights :
          (lights[i].position # Vec3_ZERO /\ lights'[i].position = Vec3_ZERO)
          => \/ light_call'.op \in {"remove_light", "clear_lights"}
             \/ /\ light_call'.op = "update_light"
                /\ light_call'.light.position = Vec3_ZERO

\* C29 as stated: the light manager holds four slots; add_light returns
\* true iff no slot has the light's position and some slot is at the
\* origin, overwriting the first such slot only, and otherwise changes
\* nothing; on a new manager no slot is at the origin, and add_light returns
\* false until remove_light or clear_lights has freed a slot; a light at the
\* origin is always rejected.
C29_AsStated == [][C29_AddLightRule /\ C29_FreedAsClaimedStep]_vars

\* C29 amended: as stated, but add_light returns false until remove_light,
\* clear_lights, or update_light with a light positioned at the origin, has
\* freed a slot.
C29_LightSlots == [][C29_AddLightRule /\ C29_FreedStep]_vars

\* add_light has just returned true on a manager whose first slot had been
\* removed: the light is in the first slot and the other three presets are
\* in place.
C29_Witness ==
    /\ light_call.op = "add_light" /\ light_call.ok
    /\ origin_stores = {"remove_light"}
    /\ lights[1] = light_call.light
    /\ light_call.light.position = <<1, 0, 0>>
    /\ \A j \in 2..NumLights : lights[j] = LightingUBO_new[j]

\* C27, on a step: update_transforms changes no scene state (objects with
\* their transforms and children lists, the map, the root list and the
\* lights are as before).  world_matrix of every object is, before the call
\* (which may come right after a transform change or after another
\* update_transforms) and after it, the same matrix: the composition of the
\* current local transforms of the object's ancestors and itself.
C27_UpdateTransformsStep ==
    scene_call'.op = "update_transforms" =>
        /\ objects' = objects
        /\ object_map' = object_map
        /\ root_objects' = root_objects
        /\ lights' = lights
        /\ \A i \in 1..Len(objects) :
              LET before == world_matrix(objects, i - 1)
                  after  == world_matrix(objects', i - 1)
                  chain  == AncestorChain(objects, i - 1)
              IN  /\ after = before
                  /\ \A p \in TestPoints :
                        Mat4_transform_point3(before, p) = ChainApply(objects, chain, p)

\* C27: update_transforms changes no scene state and world_matrix follows
\* the current local transforms with or without it.
C27_UpdateTransforms == [][C27_UpdateTransformsStep]_vars

\* update_transforms has run on a root scaled by 2 at (1,0,0) with a child
\* at (0,1,0): the child's world_matrix takes the origin to (1,2,0).
C27_Witness ==
    /\ scene_call.op = "update_transforms"
    /\ Len(objects) >= 2
    /\ objects[2].parent = 0
    /\ objects[1].transform = Transform_new(<<1, 0, 0>>, "identity", <<2, 2, 2>>)
    /\ objects[2].transform = Transform_new(<<0, 1, 0>>, "identity", Vec3_ONE)
    /\ Mat4_transform_point3(world_matrix(objects, 1), Vec3_ZERO) = <<1, 2, 0>>

\* C30: in every scene reached by add_object and remove_object, the parent
\* index of an object is strictly smaller than its own index and every
\* index in its children list is strictly larger than its own (and within
\* the storage), so each recursion over children lists climbs a bounded
\* index: the hierarchy is a forest (no object is listed as a child twice,
\* a listed child names its owner as parent) and a traversal visits no
\* object twice.
C30_Forest ==
    /\ \A i \in 1..Len(objects) :
          /\ objects[i].parent # None =>
                (0 <= objects[i].parent /\ objects[i].parent < i - 1)
          /\ \A k \in 1..Len(objects[i].children) :
                /\ objects[i].children[k] > i - 1
                /\ objects[i].children[k] < Len(objects)
                /\ objects[objects[i].children[k] + 1].parent = i - 1
                /\ \A l \in 1..Len(objects[i].children) :
                      objects[i].children[l] = objects[i].children[k] => l = k
    /\ \A r \in 1..Len(root_objects) :
          /\ 0 <= root_objects[r] /\ root_objects[r] < Len(objects)
          /\ objects[root_objects[r] + 1].parent = None
    /\ LET visited == traverse(SceneState)
       IN  \A a, b \in 1..Len(visited) : visited[a] = visited[b] => a = b

\* remove_object has returned on a scene of three objects in which object 0
\* still lists object 1 as its child and object 2, removed, keeps its parent
\* index 0.
C30_Witness ==
    /\ scene_call.op = "remove_object" /\ scene_call.ok
    /\ Len(objects) = 3
    /\ objects[1].children = <<1>>
    /\ objects[2].parent = 0
    /\ objects[3].parent = 0
    /\ 2 \in removed

\* C21: emit() returns normally for every emission pattern, Ring with
\* count = 0 included: no call of emit(), direct or from update, ends in a
\* panic.
C21_EmitReturns == emitter_call.op # "panicked"


\* ------------------------------------------------------------------------
\* Particle properties
\* ------------------------------------------------------------------------
\* C13: for every particle type, Particle::update(dt) with dt >= 0 takes dt
\* off the remaining lifetime and stops at zero: the lifetime never grows,
\* never goes below zero, and is exactly zero when dt is the remaining
\* lifetime or more.
C13_LifetimeSaturatesStep ==
    particle_call'.op = "update" =>
        LET dt == particle_call'.dt
        IN  /\ particle'.lifetime >= 0
            /\ particle'.lifetime <= particle.lifetime
            /\ dt >= particle.lifetime => particle'.lifetime = 0
            /\ dt < particle.lifetime => particle'.lifetime = particle.lifetime - dt
            /\ particle'.particle_type = particle.particle_type

RECURSIVE Running(_, _, _)
Running(effects, dt, i) ==
    IF i > Len(effects) THEN <<>>
    ELSE IF effects[i].elapsed + dt < effects[i].duration
         THEN <<i>> \o Running(effects, dt, i + 1)
         ELSE Running(effects, dt, i + 1)

\* C14: after Particle::update(dt) the effects left are those whose elapsed
\* time, advanced by dt, is below their duration; each has been advanced by
\* exactly dt, the others are gone, and the ones left keep their order.
C14_EffectsStep ==
    particle_call'.op = "update" =>
        LET dt   == particle_call'.dt
            kept == Running(particle.effects, dt, 1)
        IN  /\ Len(particle'.effects) = Len(kept)
            /\ \A k \in 1..Len(kept) :
                  /\ particle'.effects[k].effect_type = particle.effects[kept[k]].effect_type
                  /\ particle'.effects[k].duration = particle.effects[kept[k]].duration
                  /\ particle'.effects[k].elapsed = particle.effects[kept[k]].elapsed + dt
            /\ \A k \in 1..Len(particle'.effects) :
                  particle'.effects[k].elapsed < particle'.effects[k].duration

\* C14: every update step of a particle treats its effects this way.
C14_Effects == [][C14_EffectsStep]_vars

\* A particle that had two effects: the first, shorter one has expired in
\* an update and the second one is left, part of its duration elapsed.
C14_Witness ==
    /\ particle_call.op = "update"
    /\ particle_call.dt = 1
    /\ particle_call.effects_before = 2
    /\ Len(particle.effects) = 1
    /\ particle.effects[1].effect_type = "Glow"
    /\ particle.effects[1].elapsed = 1
    /\ particle.effects[1].duration = 2

\* C24: render_effect returns render data for every effect and every
\* renderer time, also when the effect's start_time is later than the
\* renderer's time: no call ends in a panic.
C24_RenderReturns == render_data.kind # "panic"

\* ------------------------------------------------------------------------
\* Path-follow properties
\* ------------------------------------------------------------------------
\* The 0-based indices of the waypoints nearest to a position.
NearestSet(pth, position) ==
    {i - 1 : i \in {k \in 1..Len(pth) :
        \A j \in 1..Len(pth) : DistSq(position, pth[k]) <= DistSq(position, pth[j])}}

\* C9: calculate_force targets the waypoint after the nearest one; when the
\* nearest is the last it wraps to the first if loop_path, and returns the
\* zero vector if not.
C9_NextWaypoint ==
    (pf_force # NoForce /\ path # <<>>) =>
        \E near \in NearestSet(path, pf_position) :
            IF near + 1 < Len(path)
            THEN pf_force.kind # "zero" /\ pf_force.target = near + 1
            ELSE IF loop_path
                 THEN pf_force.kind # "zero" /\ pf_force.target = 0
                 ELSE IsZeroForce(pf_force)

\* C20: on an empty path calculate_force returns the zero vector, whatever
\* the position and the velocity, and does not fail.
C20_EmptyPathZero ==
    (pf_force # NoForce /\ path = <<>>) => pf_force = ZeroForce

\* A call made on an empty path, away from the origin and moving.
C20_Witness ==
    /\ path = <<>>
    /\ pf_force = ZeroForce
    /\ pf_position # <<0, 0>>
    /\ pf_velocity # <<0, 0>>

\* ------------------------------------------------------------------------
\* Flocking and vortex properties
\* ------------------------------------------------------------------------
\* C18: calculate_forces returns exactly the zero vector when no neighbor is
\* strictly within perception_radius at a distance above zero: the list is
\* empty, or every neighbor is at the radius or beyond, or at the particle's
\* own position.  This holds for every own position and velocity.
C18_NoNeighborZero ==
    ( /\ fl_force # NoSteering
      /\ \A i \in 1..Len(neighbors) :
            \/ DistSq(fl_position, neighbors[i][1]) = 0
            \/ perception_radius <= 0
            \/ DistSq(fl_position, neighbors[i][1]) >= perception_radius * perception_radius )
    => fl_force = ZeroSteering

\* A call with two neighbors, one at the particle's own position and one
\* exactly at the perception radius: the force is zero.
C18_Witness ==
    /\ fl_force = ZeroSteering
    /\ perception_radius = 1
    /\ fl_velocity # <<0, 0>>
    /\ Len(neighbors) = 2
    /\ DistSq(fl_position, neighbors[1][1]) = 0
    /\ DistSq(fl_position, neighbors[2][1]) = 1

\* C19: the vortex force is exactly the zero vector at every position whose
\* distance from the center is the radius or more, the rim included.
C19_OutsideZero ==
    (vx_force # NoSwirl /\ DistSq(vx_position, center) >= radius * radius)
        => vx_force = ZeroSwirl

\* A call at a position exactly on the rim of a vortex of positive radius.
C19_Witness ==
    /\ vx_force = ZeroSwirl
    /\ radius > 0
    /\ DistSq(vx_position, center) = radius * radius

\* ------------------------------------------------------------------------
\* Specifications: one per component, the others left as constructed
\* ------------------------------------------------------------------------
\* An emitter from ParticleEmitter::builder().build() with no setter called.
EmitterIdle ==
    /\ EmitterInit
    /\ particle_type = "Debris"
    /\ emission_pattern = [kind |-> "Point", count |-> 0]
    /\ particle_lifetime = DefaultParticleLifetime

\* The scene graph under add_object and remove_object.
\* A lone particle and an effect renderer, no call made on either.
ParticleIdle == LoneParticleIdle /\ RendererIdle

\* The steering behaviours as constructed, no call made.
BehaviorIdle == PathIdle /\ FlockIdle /\ VortexIdle

Init == SceneInit /\ EmitterIdle /\ BehaviorIdle /\ ParticleIdle

\* Scene::add_light(light), which is LightManager::add_light on the scene's
\* light manager.
AddLight(light) ==
    LET r == add_light(lights, light)
    IN  /\ lights' = r.lights
        /\ light_call' = [op |-> "add_light", ok |-> r.ok, light |-> light,
                          index |-> None]
        /\ origin_stores' = IF r.ok /\ light.position = Vec3_ZERO
                            THEN origin_stores \cup {"add_light"}
                            ELSE origin_stores
        /\ UNCHANGED <<objects, object_map, root_objects, scene_call, removed,
                       world_transforms>>
        /\ UNCHANGED <<emitter_vars, behavior_vars, particle_vars>>

\* get_light_manager_mut().clear_lights().
ClearLights ==
    /\ lights' = clear_lights(lights)
    /\ light_call' = [op |-> "clear_lights", ok |-> TRUE, light |-> NoLight,
                      index |-> None]
    /\ origin_stores' = origin_stores \cup {"clear_lights"}
    /\ UNCHANGED <<objects, object_map, root_objects, scene_call, removed,
                   world_transforms>>
    /\ UNCHANGED <<emitter_vars, behavior_vars, particle_vars>>

\* get_light_manager_mut().update_light(index, light).
UpdateLight(index, light) ==
    LET r == update_light(lights, index, light)
    IN  /\ lights' = r.lights
        /\ light_call' = [op |-> "update_light", ok |-> r.ok, light |-> light,
                          index |-> index]
        /\ origin_stores' = IF r.ok /\ light.position = Vec3_ZERO
                            THEN origin_stores \cup {"update_light"}
                            ELSE origin_stores
        /\ UNCHANGED <<objects, object_map, root_objects, scene_call, removed,
                       world_transforms>>
        /\ UNCHANGED <<emitter_vars, behavior_vars, particle_vars>>

\* get_light_manager_mut().remove_light(index).
RemoveLight(index) ==
    LET r == remove_light(lights, index)
    IN  /\ lights' = r.lights
        /\ light_call' = [op |-> "remove_light", ok |-> r.ok, light |-> NoLight,
                          index |-> index]
        /\ origin_stores' = IF r.ok
                            THEN origin_stores \cup {"remove_light"}
                            ELSE origin_stores
        /\ UNCHANGED <<objects, object_map, root_objects, scene_call, removed,
                       world_transforms>>
        /\ UNCHANGED <<emitter_vars, behavior_vars, particle_vars>>

\* The light manager of a new scene under add_light, clear_lights,
\* update_light and remove_light.
LightSpecNext ==
    \/ \E light \in LightArgs : AddLight(light)
    \/ ClearLights
    \/ \E index \in 0..MaxLightIndex, light \in LightArgs : UpdateLight(index, light)
    \/ \E index \in 0..MaxLightIndex : RemoveLight(index)

LightSpec == Init /\ [][LightSpecNext]_vars

Next ==
    \/ \E name \in Names, parent \in Names \cup {NoName} :
          AddObject(name, Transform_default, parent)
    \/ \E name \in Names : RemoveObject(name)

Spec == Init /\ [][Next]_vars

\* A scene built with local transforms, with names not in use, and
\* update_transforms run on it.
TransformSpecNext ==
    \/ \E name \in Names \ DOMAIN object_map, transform \in Transforms,
          parent \in DOMAIN object_map \cup {NoName} :
          AddObject(name, transform, parent)
    \/ \E name \in Names, transform \in Transforms : SetTransform(name, transform)
    \/ UpdateTransforms

TransformSpec == Init /\ [][TransformSpecNext]_vars

\* One emitter under update, emit and assignments to max_particles.
EmitterSpecInit == SceneInit /\ EmitterInit /\ BehaviorIdle /\ ParticleIdle

EmitterSpecNext ==
    \/ \E dt \in 0..MaxDt : Update(dt)
    \/ \E dt \in 0..MaxDt : UpdatePanics(dt)
    \/ Emit
    \/ EmitPanics
    \/ \E n \in {1, DefaultMaxParticles} : SetMaxParticles(n)

EmitterSpec == EmitterSpecInit /\ [][EmitterSpecNext]_vars

\* One call of PathFollowBehavior::calculate_force on drawn inputs.
PathSpecInit ==
    SceneInit /\ EmitterIdle /\ PathInit /\ FlockIdle /\ VortexIdle /\ ParticleIdle

PathSpecNext == CalculateForce

PathSpec == PathSpecInit /\ [][PathSpecNext]_vars

\* One call of FlockingBehavior::calculate_forces on drawn inputs.
FlockSpecInit ==
    SceneInit /\ EmitterIdle /\ PathIdle /\ FlockInit /\ VortexIdle /\ ParticleIdle

FlockSpecNext == CalculateForces

FlockSpec == FlockSpecInit /\ [][FlockSpecNext]_vars

\* One call of VortexBehavior::calculate_force on drawn inputs.
VortexSpecInit ==
    SceneInit /\ EmitterIdle /\ PathIdle /\ FlockIdle /\ VortexInit /\ ParticleIdle

VortexSpecNext == VortexCalculateForce

VortexSpec == VortexSpecInit /\ [][VortexSpecNext]_vars

\* One particle under Particle::update.
ParticleSpecInit ==
    SceneInit /\ EmitterIdle /\ BehaviorIdle /\ ParticleInit /\ RendererIdle

ParticleSpecNext == \E dt \in 0..MaxDt : ParticleUpdate(dt)

ParticleSpec == ParticleSpecInit /\ [][ParticleSpecNext]_vars

\* One call of EffectRenderer::render_effect on drawn inputs.
RendererSpecInit ==
    SceneInit /\ EmitterIdle /\ BehaviorIdle /\ LoneParticleIdle /\ RendererInit

RendererSpecNext == RenderEffect

RendererSpec == RendererSpecInit /\ [][RendererSpecNext]_vars

====
